---- MODULE Spec2Model ----
(***************************************************************************)
(* Model of qiime/filter.py: the metadata selector (get_sample_ids), the   *)
(* sequence filter (filter_fasta), the mapping-file pruner                 *)
(* (filter_mapping_file), the distance-matrix filter                       *)
(* (filter_samples_from_distance_matrix) and the count-bounded predicate   *)
(* (get_filter_function).                                                  *)
(*                                                                         *)
(* Python strings are modelled as sequences of one-character strings, so   *)
(* that str.split(), '!' + value and 'SampleID_was_' + name are computed   *)
(* and not assumed.  Python's 0-based positions are shifted to 1-based.    *)
(* Every call is one behaviour: Init draws the function and its arguments, *)
(* the function's action computes the result (or the exception raised).    *)
(***************************************************************************)
EXTENDS Integers, Sequences, FiniteSets, TLC

VARIABLES op, args, ret, pc

vars == <<op, args, ret, pc>>

-----------------------------------------------------------------------------
(* Bounds of the explored inputs *)

MaxRows == 2
MaxRecs == 2
MaxMapRows == 3
MaxN == 2
MaxVecLen == 2
MaxCount == 3

-----------------------------------------------------------------------------
(* Generic helpers for Python values *)

Range(s) == {s[i] : i \in 1..Len(s)}

SeqsUpTo(S, n) == UNION {[1..k -> S] : k \in 0..n}

Digit(i) == <<"0", "1", "2", "3", "4", "5", "6", "7", "8", "9">>[i + 1]

\* characters str.split() treats as separators
IsSpace(c) == c \in {" ", "\t", "\n", "\r"}

RECURSIVE lstrip(_)
lstrip(s) ==
    IF s = <<>> THEN <<>>
    ELSE IF IsSpace(Head(s)) THEN lstrip(Tail(s)) ELSE s

RECURSIVE first_run(_)
first_run(s) ==
    IF s = <<>> THEN <<>>
    ELSE IF IsSpace(Head(s)) THEN <<>> ELSE <<Head(s)>> \o first_run(Tail(s))

\* s.split() is the empty list: s.split()[0] raises IndexError
split_is_empty(s) == lstrip(s) = <<>>

\* s.split()[0]
split0(s) == first_run(lstrip(s))

\* zip(*rows): the columns of a list of rows, truncated to the shortest row
RECURSIVE min_len(_)
min_len(rows) ==
    IF Len(rows) = 1 THEN Len(rows[1])
    ELSE LET m == min_len(Tail(rows))
         IN  IF Len(rows[1]) < m THEN Len(rows[1]) ELSE m

zip_star(rows) ==
    IF rows = <<>> THEN <<>>
    ELSE [j \in 1..min_len(rows) |-> [i \in 1..Len(rows) |-> rows[i][j]]]

NoRet == [status |-> "none"]

-----------------------------------------------------------------------------
(* get_sample_ids *)

star == <<"*">>
bang == <<"!">>

\* list.index: position of the first occurrence (0 when absent: ValueError)
index(lst, s) ==
    IF \E i \in 1..Len(lst) : lst[i] = s
    THEN CHOOSE i \in 1..Len(lst) : lst[i] = s /\ \A j \in 1..(i - 1) : lst[j] # s
    ELSE 0

name_to_col(map_header, states) == [s \in DOMAIN states |-> index(map_header, s)]

state_ok_mut(curr_state, vals) == curr_state \in vals \/ star \in vals

\* one conjunct of line 48-49 for one constrained column
state_ok(curr_state, vals) ==
    (curr_state \in vals \/ star \in vals) /\ ~((bang \o curr_state) \in vals)

\* the inner loop over states.items(), folding include = include and ...
RECURSIVE include_fold(_, _, _, _, _)
include_fold(include, row, cols, states, todo) ==
    IF todo = {} THEN include
    ELSE LET s == CHOOSE x \in todo : TRUE
         IN  include_fold(include /\ state_ok(row[cols[s]], states[s]),
                          row, cols, states, todo \ {s})

RECURSIVE good_ids_loop(_, _, _, _)
good_ids_loop(good_ids, map_data, cols, states) ==
    IF map_data = <<>> THEN good_ids
    ELSE LET row == Head(map_data)
             include == include_fold(TRUE, row, cols, states, DOMAIN states)
         IN  good_ids_loop(IF include THEN Append(good_ids, row[1]) ELSE good_ids,
                           Tail(map_data), cols, states)

get_sample_ids(map_data, map_header, states) ==
    LET cols == name_to_col(map_header, states)
    IN  IF \E s \in DOMAIN states : cols[s] = 0
        THEN [status |-> "ValueError"]
        ELSE [status |-> "ok",
              value |-> good_ids_loop(<<>>, map_data, cols, states)]

\* inputs
vX == <<"X">>
vY == <<"Y">>
hSampleID == <<"S", "a", "m", "p", "l", "e", "I", "D">>
hStudy == <<"S", "t", "u", "d", "y">>
hBodySite == <<"B", "o", "d", "y", "S", "i", "t", "e">>
hDescription == <<"D", "e", "s", "c">>
hMissing == <<"M", "i", "s", "s", "i", "n", "g">>

SampleId(i) == <<"S", Digit(i)>>

SelHeader == <<hSampleID, hStudy, hBodySite>>
SelValues == {vX, vY}
Tokens == {vX, vY, star, bang \o vX}

SelTables ==
    UNION {{[i \in 1..k |-> <<SampleId(i)>> \o f[i]] :
                f \in [1..k -> [1..2 -> SelValues]]} : k \in 0..MaxRows}

InHeaderStates == UNION {[D -> SUBSET Tokens] : D \in SUBSET {hStudy, hBodySite}}

StateSets ==
    InHeaderStates \cup
    {[c \in DOMAIN f \cup {hMissing} |-> IF c = hMissing THEN {star} ELSE f[c]] :
        f \in InHeaderStates}

GetSampleIdsInputs ==
    [map_data : SelTables, map_header : {SelHeader}, states : StateSets]

GetSampleIds ==
    /\ pc = "call" /\ op = "get_sample_ids"
    /\ ret' = get_sample_ids(args.map_data, args.map_header, args.states)
    /\ pc' = "done"
    /\ UNCHANGED <<op, args>>

-----------------------------------------------------------------------------
(* filter_fasta *)

\* {}.fromkeys([seq_id.split()[0] for seq_id in seqs_to_keep])
seqs_to_keep_lookup(seqs_to_keep) == {split0(seq_id) : seq_id \in seqs_to_keep}

keep_seq_mut(negate, seq_id, lookup) ==
    IF ~negate THEN split0(seq_id) \in lookup
    ELSE seq_id \notin lookup

\* the closure chosen on negate
keep_seq(negate, seq_id, lookup) ==
    IF ~negate THEN split0(seq_id) \in lookup
    ELSE split0(seq_id) \notin lookup

fasta_entry_mut(seq_id, seq) == <<">">> \o split0(seq_id) \o <<"\n">> \o seq \o <<"\n">>

\* '>%s\n%s\n' % (seq_id, seq)
fasta_entry(seq_id, seq) == <<">">> \o seq_id \o <<"\n">> \o seq \o <<"\n">>

\* the loop over input_seqs; sink is the list of strings passed to write()
RECURSIVE fasta_loop(_, _, _, _)
fasta_loop(sink, input_seqs, lookup, negate) ==
    IF input_seqs = <<>>
    THEN [status |-> "ok", writes |-> sink, closed |-> TRUE]
    ELSE LET entry == Head(input_seqs)
             seq_id == entry[1]
             seq == entry[2]
         IN  IF split_is_empty(seq_id)
             THEN [status |-> "IndexError", writes |-> sink, closed |-> FALSE]
             ELSE fasta_loop(IF keep_seq(negate, seq_id, lookup)
                             THEN Append(sink, fasta_entry(seq_id, seq))
                             ELSE sink,
                             Tail(input_seqs), lookup, negate)

filter_fasta(input_seqs, seqs_to_keep, negate) ==
    IF \E seq_id \in seqs_to_keep : split_is_empty(seq_id)
    THEN [status |-> "IndexError", writes |-> <<>>, closed |-> FALSE]
    ELSE fasta_loop(<<>>, input_seqs, seqs_to_keep_lookup(seqs_to_keep), negate)

\* the text the sink holds after the writes
RECURSIVE concat(_)
concat(ws) == IF ws = <<>> THEN <<>> ELSE Head(ws) \o concat(Tail(ws))

\* inputs
sA == <<"A">>
sB == <<"B">>
sC == <<"C">>
sAdesc == <<"A", " ", "d", "e", "s", "c">>
sBtab == <<"B", "\t", "x">>
sACGT == <<"A", "C", "G", "T">>
sTTTT == <<"T", "T", "T", "T">>
sQual == <<"#", "#", "#", "#">>

FastaIds == {sA, sB, sAdesc, sBtab}
FastaSeqs == {sACGT, sTTTT}
\* fasta entries have 2 fields, fastq entries 3
FastaEntries ==
    {<<i, s>> : i \in FastaIds, s \in FastaSeqs} \cup
    {<<i, s, sQual>> : i \in FastaIds, s \in FastaSeqs}
KeepIds == {sA, sB, sAdesc, sC}

FilterFastaInputs ==
    [input_seqs : SeqsUpTo(FastaEntries, MaxRecs),
     seqs_to_keep : SUBSET KeepIds,
     negate : BOOLEAN]

FilterFasta ==
    /\ pc = "call" /\ op = "filter_fasta"
    /\ ret' = filter_fasta(args.input_seqs, args.seqs_to_keep, args.negate)
    /\ pc' = "done"
    /\ UNCHANGED <<op, args>>

-----------------------------------------------------------------------------
(* filter_mapping_file *)

sSampleID_was_ == <<"S", "a", "m", "p", "l", "e", "I", "D", "_", "w", "a", "s", "_">>

\* [i for i in map_data if i[0] in good_sample_ids]
RECURSIVE keep_samples(_, _)
keep_samples(map_data, good_sample_ids) ==
    IF map_data = <<>> THEN <<>>
    ELSE IF Head(map_data)[1] \in good_sample_ids
         THEN <<Head(map_data)>> \o keep_samples(Tail(map_data), good_sample_ids)
         ELSE keep_samples(Tail(map_data), good_sample_ids)

\* lst[1:-1]
interior(lst) == IF Len(lst) <= 2 THEN <<>> ELSE SubSeq(lst, 2, Len(lst) - 1)

\* "if column_rename_ids:" ; None is <<>>, an integer k is <<k>>
rename_requested(column_rename_ids) ==
    column_rename_ids # <<>> /\ column_rename_ids[1] # 0

col_survives_mut(include_repeat_cols, l) == include_repeat_cols \/ Cardinality(Range(l)) >= 1

\* include_repeat_cols or len(set(l))>1
col_survives(include_repeat_cols, l) == include_repeat_cols \/ Cardinality(Range(l)) > 1

rename_not_unique_mut(l, result) == Len(l) # Len(result[1])

\* len(set(l))!=len(result[0])
rename_not_unique(l, result) == Cardinality(Range(l)) # Len(result[1])

renamed_header_mut(map_header, i) == sSampleID_was_ \o map_header[1]

\* 'SampleID_was_' + map_header[i+1], i the 1-based position among interior columns
renamed_header(map_header, i) == sSampleID_was_ \o map_header[i + 1]

\* the loop of the rename branch; acc is [status, headers, result]
RECURSIVE rename_loop(_, _, _, _, _, _)
rename_loop(acc, i, cols, map_header, include_repeat_cols, k) ==
    IF i > Len(cols) \/ acc.status # "ok" THEN acc
    ELSE LET l == cols[i]
         IN  IF i = k
             THEN IF rename_not_unique(l, acc.result)
                  THEN [status |-> "ValueError"]
                  ELSE rename_loop(
                         [status |-> "ok",
                          headers |-> Append(acc.headers, renamed_header(map_header, i)),
                          result |-> <<l>> \o Tail(Append(acc.result, acc.result[1]))],
                         i + 1, cols, map_header, include_repeat_cols, k)
             ELSE IF col_survives(include_repeat_cols, l)
                  THEN rename_loop(
                         [status |-> "ok",
                          headers |-> Append(acc.headers, map_header[i + 1]),
                          result |-> Append(acc.result, l)],
                         i + 1, cols, map_header, include_repeat_cols, k)
                  ELSE rename_loop(acc, i + 1, cols, map_header, include_repeat_cols, k)

\* the loop of the plain branch
RECURSIVE plain_loop(_, _, _, _, _)
plain_loop(acc, i, cols, map_header, include_repeat_cols) ==
    IF i > Len(cols) THEN acc
    ELSE LET l == cols[i]
         IN  IF col_survives(include_repeat_cols, l)
             THEN plain_loop(
                    [status |-> "ok",
                     headers |-> Append(acc.headers, map_header[i + 1]),
                     result |-> Append(acc.result, l)],
                    i + 1, cols, map_header, include_repeat_cols)
             ELSE plain_loop(acc, i + 1, cols, map_header, include_repeat_cols)

filter_mapping_file(map_data, map_header, good_sample_ids, include_repeat_cols, column_rename_ids) ==
    LET to_keep == zip_star(keep_samples(map_data, good_sample_ids))
    IN  IF to_keep = <<>>
        THEN [status |-> "IndexError"]
        ELSE LET acc0 == [status |-> "ok",
                          headers |-> <<map_header[1]>>,
                          result |-> <<to_keep[1]>>]
                 acc == IF rename_requested(column_rename_ids)
                        THEN rename_loop(acc0, 1, interior(to_keep), map_header,
                                         include_repeat_cols, column_rename_ids[1])
                        ELSE plain_loop(acc0, 1, interior(to_keep), map_header,
                                        include_repeat_cols)
             IN  IF acc.status # "ok" THEN acc
                 ELSE [status |-> "ok",
                       headers |-> Append(acc.headers, map_header[Len(map_header)]),
                       result |-> zip_star(Append(acc.result, to_keep[Len(to_keep)]))]

\* inputs
vZ == <<"Z">>
MapValues == {vX, vY, vZ}
Desc(i) == <<"d", Digit(i)>>
MapHeaders == {<<hSampleID, hStudy, hDescription>>,
               <<hSampleID, hStudy, hBodySite, hDescription>>}

MapTables(ncols) ==
    UNION {{[i \in 1..k |-> <<SampleId(i)>> \o f[i] \o <<Desc(i)>>] :
                f \in [1..k -> [1..(ncols - 2) -> MapValues]]} : k \in 0..MaxMapRows}

GoodIdSets == SUBSET {SampleId(i) : i \in 1..MaxMapRows}

RenameIds(h) == {<<>>} \cup {<<k>> : k \in 0..(Len(h) - 1)}

FilterMappingFileInit ==
    \E h \in MapHeaders : \E m \in MapTables(Len(h)) : \E g \in GoodIdSets :
    \E r \in BOOLEAN : \E c \in RenameIds(h) :
        args = [map_data |-> m, map_header |-> h, good_sample_ids |-> g,
                include_repeat_cols |-> r, column_rename_ids |-> c]

FilterMappingFile ==
    /\ pc = "call" /\ op = "filter_mapping_file"
    /\ ret' = filter_mapping_file(args.map_data, args.map_header, args.good_sample_ids,
                                  args.include_repeat_cols, args.column_rename_ids)
    /\ pc' = "done"
    /\ UNCHANGED <<op, args>>

-----------------------------------------------------------------------------
(* filter_samples_from_distance_matrix *)

\* {}.fromkeys([e.split()[0] for e in samples_to_discard])
sample_lookup(samples_to_discard) == {split0(e) : e \in samples_to_discard}

keep_sample_mut(negate, s, lookup) ==
    IF negate THEN s \notin lookup ELSE s \in lookup

\* the closure chosen on negate
keep_sample(negate, s, lookup) ==
    IF negate THEN s \in lookup ELSE s \notin lookup

\* numpy array(m).transpose() of a list of equal-length rows
transpose(m) ==
    IF m = <<>> THEN <<>>
    ELSE [j \in 1..Len(m[1]) |-> [i \in 1..Len(m) |-> m[i][j]]]

min2(a, b) == IF a < b THEN a ELSE b

\* for x, sample_id in zip(data, sample_ids): if keep_sample(sample_id): out.append(x)
RECURSIVE keep_axis(_, _, _, _, _)
keep_axis(i, data, sample_ids, negate, lookup) ==
    IF i > min2(Len(data), Len(sample_ids)) THEN <<>>
    ELSE IF keep_sample(negate, sample_ids[i], lookup)
         THEN <<data[i]>> \o keep_axis(i + 1, data, sample_ids, negate, lookup)
         ELSE keep_axis(i + 1, data, sample_ids, negate, lookup)

filter_cols_mut(temp_dm_data, sample_ids, negate, lookup) ==
    keep_axis(1, temp_dm_data, sample_ids, negate, lookup)

\* the second loop and the final transpose (lines 154-157)
filter_cols(temp_dm_data, sample_ids, negate, lookup) ==
    transpose(keep_axis(1, temp_dm_data, sample_ids, negate, lookup))

\* the value is the pair handed to format_distance_matrix
filter_samples_from_distance_matrix(sample_ids, dm_data, samples_to_discard, negate) ==
    IF \E e \in samples_to_discard : split_is_empty(e)
    THEN [status |-> "IndexError"]
    ELSE LET lookup == sample_lookup(samples_to_discard)
             new_sample_ids == keep_axis(1, sample_ids, sample_ids, negate, lookup)
             temp_dm_data == transpose(keep_axis(1, dm_data, sample_ids, negate, lookup))
         IN  [status |-> "ok",
              sample_ids |-> new_sample_ids,
              dm_data |-> filter_cols(temp_dm_data, sample_ids, negate, lookup)]

\* inputs
sa == <<"a">>
sb == <<"b">>
sc == <<"c">>
sax == <<"a", " ", "x">>
sby == <<"b", " ", "y">>
DmIds == {sa, sb, sax}
DiscardIds == {sa, sby, sc}
DmValues == {0, 1}

FilterDmInit ==
    \E n \in 1..MaxN : \E ids \in [1..n -> DmIds] :
    \E dm \in [1..n -> [1..n -> DmValues]] :
    \E d \in SUBSET DiscardIds : \E neg \in BOOLEAN :
        args = [sample_ids |-> ids, dm_data |-> dm,
                samples_to_discard |-> d, negate |-> neg]

FilterSamplesFromDistanceMatrix ==
    /\ pc = "call" /\ op = "filter_samples_from_distance_matrix"
    /\ ret' = filter_samples_from_distance_matrix(args.sample_ids, args.dm_data,
                                                  args.samples_to_discard, args.negate)
    /\ pc' = "done"
    /\ UNCHANGED <<op, args>>

-----------------------------------------------------------------------------
(* get_filter_function *)

\* data_vector.sum()
RECURSIVE vsum(_)
vsum(v) == IF v = <<>> THEN 0 ELSE Head(v) + vsum(Tail(v))

count_in_range_mut(min_count, max_count, data_vector) ==
    min_count <= vsum(data_vector) /\ vsum(data_vector) < max_count

\* min_count <= data_vector.sum() <= max_count
count_in_range(min_count, max_count, data_vector) ==
    min_count <= vsum(data_vector) /\ vsum(data_vector) <= max_count

\* the closure f returned by get_filter_function, applied to (data_vector, id_)
filter_f(ids_to_keep, min_count, max_count, negate_ids_to_keep, data_vector, id_) ==
    IF negate_ids_to_keep
    THEN (id_ \notin ids_to_keep) /\ count_in_range(min_count, max_count, data_vector)
    ELSE (id_ \in ids_to_keep) /\ count_in_range(min_count, max_count, data_vector)

\* inputs
OtuIds == {sa, sb}
CountValues == {0, 1, 2}

GetFilterFunctionInit ==
    \E k \in SUBSET OtuIds : \E lo \in 0..MaxCount : \E hi \in 0..MaxCount :
    \E neg \in BOOLEAN : \E v \in SeqsUpTo(CountValues, MaxVecLen) :
    \E i \in OtuIds \cup {sc} :
        args = [ids_to_keep |-> k, min_count |-> lo, max_count |-> hi,
                negate_ids_to_keep |-> neg, data_vector |-> v, id_ |-> i]

GetFilterFunction ==
    /\ pc = "call" /\ op = "get_filter_function"
    /\ ret' = [status |-> "ok",
               value |-> filter_f(args.ids_to_keep, args.min_count, args.max_count,
                                  args.negate_ids_to_keep, args.data_vector, args.id_)]
    /\ pc' = "done"
    /\ UNCHANGED <<op, args>>

-----------------------------------------------------------------------------

Init ==
    /\ pc = "call"
    /\ ret = NoRet
    /\ \/ op = "get_sample_ids" /\ args \in GetSampleIdsInputs
       \/ op = "filter_fasta" /\ args \in FilterFastaInputs
       \/ op = "filter_mapping_file" /\ FilterMappingFileInit
       \/ op = "filter_samples_from_distance_matrix" /\ FilterDmInit
       \/ op = "get_filter_function" /\ GetFilterFunctionInit

Next ==
    \/ GetSampleIds
    \/ FilterFasta
    \/ FilterMappingFile
    \/ FilterSamplesFromDistanceMatrix
    \/ GetFilterFunction

Spec == Init /\ [][Next]_vars

-----------------------------------------------------------------------------
(* Properties *)

Done(o) == pc = "done" /\ op = o

Idx(n) == [i \in 1..n |-> i]

(* ---- get_sample_ids ---- *)

\* the cell of row under the column named s (header names are distinct)
CellOf(row, h, s) == row[CHOOSE i \in 1..Len(h) : h[i] = s]

\* the documented boolean formula for one row
RowSelected(row, h, states) ==
    \A s \in DOMAIN states :
        /\ CellOf(row, h, s) \in states[s] \/ star \in states[s]
        /\ (bang \o CellOf(row, h, s)) \notin states[s]

\* ids of the rows one column's tokens select on their own
PerColumn(map_data, h, states, s) ==
    {map_data[i][1] : i \in {k \in 1..Len(map_data) :
        /\ CellOf(map_data[k], h, s) \in states[s] \/ star \in states[s]
        /\ (bang \o CellOf(map_data[k], h, s)) \notin states[s]}}

\* C1: when every constrained column occurs in the header, get_sample_ids
\* returns, in row order, the first cells of exactly the rows whose every
\* constrained column satisfies (cell in tokens or '*' in tokens) and
\* '!'+cell not in tokens; an exclusion token beats '*', several columns
\* select the intersection of the per-column selections, and an empty
\* constraint set selects every row.
C1_SelectsByFormula ==
    (Done("get_sample_ids") /\ DOMAIN args.states \subseteq Range(args.map_header)) =>
        LET md == args.map_data
            h == args.map_header
            st == args.states
            sel == SelectSeq(md, LAMBDA row : RowSelected(row, h, st))
        IN  /\ ret.status = "ok"
            /\ ret.value = [i \in 1..Len(sel) |-> sel[i][1]]
            /\ \A i \in 1..Len(md) : \A s \in DOMAIN st :
                   (bang \o CellOf(md[i], h, s)) \in st[s] => md[i][1] \notin Range(ret.value)
            /\ \A i \in 1..Len(md) :
                   md[i][1] \in Range(ret.value) <=>
                       \A s \in DOMAIN st : md[i][1] \in PerColumn(md, h, st, s)
            /\ st = <<>> => ret.value = [i \in 1..Len(md) |-> md[i][1]]

\* a two-column constraint with '*' and '!X' on Study that drops one of two rows
C1_Witness ==
    /\ Done("get_sample_ids")
    /\ DOMAIN args.states = {hStudy, hBodySite}
    /\ args.states[hStudy] = {star, bang \o vX}
    /\ args.states[hBodySite] = {vY}
    /\ Len(args.map_data) = 2
    /\ args.map_data[1][2] = vX
    /\ ret.status = "ok"
    /\ ret.value = <<SampleId(2)>>

(* ---- filter_fasta ---- *)

\* the reference keep decision: first token in the set of first tokens
TokenIn(seq_id, seqs_to_keep) == split0(seq_id) \in {split0(k) : k \in seqs_to_keep}

Survivors(input_seqs, seqs_to_keep, negate) ==
    SelectSeq(input_seqs, LAMBDA e : TokenIn(e[1], seqs_to_keep) # negate)

sExampleOut == <<">", "A", "\n", "A", "C", "G", "T", "\n">>
sExampleRawOut == <<">", "A", " ", "d", "e", "s", "c", "\n", "A", "C", "G", "T", "\n">>

IsExample ==
    /\ Done("filter_fasta")
    /\ args.input_seqs = <<<<sAdesc, sACGT>>, <<sB, sTTTT>>>>
    /\ args.seqs_to_keep = {sA}
    /\ ~args.negate

\* C2 as stated: with negate=false the sink receives, in input order, one
\* entry '>' + normalized identifier + newline + sequence + newline per
\* surviving record; the example's complete output is '>A\nACGT\n'.
C2_Original ==
    (Done("filter_fasta") /\ ~args.negate) =>
        LET sv == Survivors(args.input_seqs, args.seqs_to_keep, FALSE)
        IN  /\ ret.status = "ok"
            /\ ret.writes = [i \in 1..Len(sv) |->
                   <<">">> \o split0(sv[i][1]) \o <<"\n">> \o sv[i][2] \o <<"\n">>]
            /\ IsExample => concat(ret.writes) = sExampleOut

\* C2 amended: with negate=false the sink receives, in input order, one
\* entry '>' + the identifier exactly as given in the record (description
\* included) + newline + sequence + newline per surviving record and nothing
\* for a discarded one; the example's complete output is '>A desc\nACGT\n'.
C2_WritesRawIdentifier ==
    (Done("filter_fasta") /\ ~args.negate) =>
        LET sv == Survivors(args.input_seqs, args.seqs_to_keep, FALSE)
        IN  /\ ret.status = "ok"
            /\ ret.closed
            /\ ret.writes = [i \in 1..Len(sv) |->
                   <<">">> \o sv[i][1] \o <<"\n">> \o sv[i][2] \o <<"\n">>]
            /\ IsExample => concat(ret.writes) = sExampleRawOut

C2_Witness == IsExample /\ concat(ret.writes) = sExampleRawOut

\* C9: in filter_fasta the keep decision under negate=true is the negation of
\* the decision under negate=false, so for one input the records written
\* with negate=false and with negate=true are disjoint, together are all the
\* input records, and each list is in input order.
C9_NegateComplements ==
    Done("filter_fasta") =>
        LET inp == args.input_seqs
            lookup == seqs_to_keep_lookup(args.seqs_to_keep)
            other == filter_fasta(inp, args.seqs_to_keep, ~args.negate)
            entries(sv) == [i \in 1..Len(sv) |-> fasta_entry(sv[i][1], sv[i][2])]
        IN  /\ \A i \in 1..Len(inp) :
                   keep_seq(TRUE, inp[i][1], lookup) = ~keep_seq(FALSE, inp[i][1], lookup)
            /\ ret.status = "ok" /\ other.status = "ok"
            /\ ret.writes = entries(Survivors(inp, args.seqs_to_keep, args.negate))
            /\ other.writes = entries(Survivors(inp, args.seqs_to_keep, ~args.negate))
            /\ Len(ret.writes) + Len(other.writes) = Len(inp)

\* negate=true drops the record whose first token is kept and writes the other
C9_Witness ==
    /\ Done("filter_fasta")
    /\ args.negate
    /\ args.seqs_to_keep = {sA}
    /\ args.input_seqs = <<<<sAdesc, sACGT>>, <<sBtab, sTTTT>>>>
    /\ ret.writes = <<fasta_entry(sBtab, sTTTT)>>

(* ---- filter_samples_from_distance_matrix ---- *)

DiscardTokens == {split0(e) : e \in args.samples_to_discard}

\* C3 as stated: the distance-matrix filter has the polarity of sequence
\* filtering: negate=false keeps a sample iff its normalized identifier is in
\* the supplied set, negate=true iff it is not.
C3_Original ==
    Done("filter_samples_from_distance_matrix") =>
        /\ ret.status = "ok"
        /\ ret.sample_ids =
               SelectSeq(args.sample_ids,
                         LAMBDA x : (split0(x) \in DiscardTokens) # args.negate)

\* C3 amended: the supplied set names the samples to discard: negate=false
\* keeps a sample (row and column) iff its identifier, compared exactly as it
\* stands in the matrix, is NOT among the first tokens of the supplied
\* entries, and negate=true keeps it iff it IS among them.
C3_DiscardPolarity ==
    Done("filter_samples_from_distance_matrix") =>
        /\ ret.status = "ok"
        /\ ret.sample_ids =
               SelectSeq(args.sample_ids,
                         LAMBDA x : (x \in DiscardTokens) = args.negate)
        /\ Len(ret.dm_data) = Len(ret.sample_ids)
        /\ \A i \in 1..Len(ret.dm_data) : Len(ret.dm_data[i]) = Len(ret.sample_ids)

\* negate=false, 'a' listed: 'a' is removed, 'a x' (same first token) stays
C3_Witness ==
    /\ Done("filter_samples_from_distance_matrix")
    /\ ~args.negate
    /\ args.samples_to_discard = {sa}
    /\ args.sample_ids = <<sa, sax>>
    /\ ret.sample_ids = <<sax>>

\* C10: the result is the sub-matrix on the retained samples: the retained
\* identifiers are the sub-sequence K of the input identifiers that pass the
\* one keep predicate, the result is |K| x |K|, and entry (i, j) is the
\* input entry at (position of K[i], position of K[j]).
C10_ValidSubMatrix ==
    Done("filter_samples_from_distance_matrix") =>
        LET ids == args.sample_ids
            K == SelectSeq(Idx(Len(ids)),
                           LAMBDA p : (ids[p] \in DiscardTokens) = args.negate)
        IN  /\ ret.status = "ok"
            /\ ret.sample_ids = [i \in 1..Len(K) |-> ids[K[i]]]
            /\ ret.dm_data =
                   [i \in 1..Len(K) |-> [j \in 1..Len(K) |-> args.dm_data[K[i]][K[j]]]]

\* an asymmetric 2 x 2 matrix kept whole, and one reduced to its second sample
C10_Witness ==
    /\ Done("filter_samples_from_distance_matrix")
    /\ Len(args.sample_ids) = 2
    /\ args.dm_data[1][1] = 0 /\ args.dm_data[2][2] = 1
    /\ args.dm_data[1][2] # args.dm_data[2][1]
    /\ ret.sample_ids = <<args.sample_ids[2]>>
    /\ ret.dm_data = <<<<1>>>>

(* ---- get_filter_function ---- *)

RECURSIVE SumTo(_, _)
SumTo(v, n) == IF n = 0 THEN 0 ELSE SumTo(v, n - 1) + v[n]

\* C8: the predicate is true iff the membership test (id in ids_to_keep,
\* inverted by negate) holds and min_count <= sum <= max_count, both bounds
\* inclusive; a failed count test rejects whatever negate is.
C8_CountBoundedMembership ==
    Done("get_filter_function") =>
        LET total == SumTo(args.data_vector, Len(args.data_vector))
            member == (args.id_ \in args.ids_to_keep) # args.negate_ids_to_keep
            same(neg) == filter_f(args.ids_to_keep, args.min_count, args.max_count,
                                  neg, args.data_vector, args.id_)
        IN  /\ ret.value = (member /\ args.min_count <= total /\ total <= args.max_count)
            /\ (member /\ args.min_count <= args.max_count
                       /\ total \in {args.min_count, args.max_count}) => ret.value
            /\ total \in {args.min_count - 1, args.max_count + 1} => ~ret.value
            /\ (total < args.min_count \/ total > args.max_count) =>
                   (~same(TRUE) /\ ~same(FALSE))

\* a vector summing to exactly max_count (above min_count) is kept
C8_Witness ==
    /\ Done("get_filter_function")
    /\ args.data_vector = <<1, 2>>
    /\ args.max_count = 3 /\ args.min_count = 1
    /\ args.negate_ids_to_keep /\ args.id_ \notin args.ids_to_keep
    /\ ret.value

(* ---- filter_mapping_file ---- *)

IsMap == Done("filter_mapping_file")

\* the input rows whose identifier cell is in good_sample_ids, in row order
Retained == SelectSeq(args.map_data, LAMBDA row : row[1] \in args.good_sample_ids)

NoRename == args.column_rename_ids = <<>>

NCols == Len(args.map_header)

DistinctIn(j) == Cardinality({Retained[r][j] : r \in 1..Len(Retained)})

AllDistinct(j) == DistinctIn(j) = Len(Retained)

\* C4: with include_repeat_cols=false and no rename, every interior column
\* whose values differ in every retained sample is dropped from the output.
C4_DropsAllDistinct ==
    (IsMap /\ NoRename /\ ~args.include_repeat_cols /\ ret.status = "ok") =>
        \A j \in 2..(NCols - 1) :
            AllDistinct(j) => args.map_header[j] \notin Range(ret.headers)

\* positions of the columns the plain branch outputs
PlainCols ==
    SelectSeq(Idx(NCols),
              LAMBDA j : j = 1 \/ j = NCols \/ args.include_repeat_cols \/ DistinctIn(j) > 1)

RenameCol ==
    IF args.column_rename_ids # <<>> /\ args.column_rename_ids[1] \in 1..(NCols - 2)
    THEN args.column_rename_ids[1] + 1 ELSE 0

RenameCols ==
    SelectSeq(Idx(NCols),
              LAMBDA j : j = 1 \/ j = NCols \/ j = RenameCol
                         \/ args.include_repeat_cols \/ DistinctIn(j) > 1)

\* the table a successful rename returns, the demoted column headed by
\* 'SampleID_was_' + map_header[nameFrom]
RenamedTable(nameFrom) ==
    [status |-> "ok",
     headers |-> [t \in 1..Len(RenameCols) |->
                    IF RenameCols[t] = RenameCol
                    THEN sSampleID_was_ \o args.map_header[nameFrom]
                    ELSE args.map_header[RenameCols[t]]],
     result |-> [r \in 1..Len(Retained) |->
                    [t \in 1..Len(RenameCols) |->
                        IF RenameCols[t] = 1 THEN Retained[r][RenameCol]
                        ELSE IF RenameCols[t] = RenameCol THEN Retained[r][1]
                        ELSE Retained[r][RenameCols[t]]]]]

\* C6 as stated: a rename index designating interior column k with unique
\* retained values puts column k's values in the identifier column and keeps
\* the old identifiers in column k's position under the header
\* 'SampleID_was_' + the identifier column's header; non-unique values fail.
\* Stated on the calls that retain a row, where the rename is reached.
C6_Original ==
    (IsMap /\ RenameCol # 0 /\ Len(Retained) > 0) =>
        IF AllDistinct(RenameCol)
        THEN ret = RenamedTable(1)
        ELSE ret.status \notin {"ok", "none"}

\* C6 amended: as stated, except that the demoted column's header is
\* 'SampleID_was_' + the header of the designated column k, and that a call
\* retaining no row fails (IndexError) before the rename is looked at.
C6_RenameSwapsIdentifier ==
    (IsMap /\ RenameCol # 0) =>
        IF Len(Retained) = 0 THEN ret.status = "IndexError"
        ELSE IF AllDistinct(RenameCol)
        THEN ret = RenamedTable(RenameCol)
        ELSE ret.status = "ValueError"

\* rename by BodySite (unique) while Study is constant and dropped
C6_Witness ==
    /\ IsMap /\ ~args.include_repeat_cols
    /\ args.map_header = <<hSampleID, hStudy, hBodySite, hDescription>>
    /\ args.column_rename_ids = <<2>>
    /\ Len(Retained) = 2
    /\ ret.status = "ok"
    /\ ret.headers = <<hSampleID, sSampleID_was_ \o hBodySite, hDescription>>
    /\ ret.result = <<<<vX, SampleId(1), Desc(1)>>, <<vY, SampleId(3), Desc(3)>>>>

\* C7: every call without rename completes with a table whose rows are the
\* input rows whose identifier is in ids_to_keep, one output row per such
\* row and in row order, and leaves its inputs as they were.
C7_RowsFilteredAlways ==
    [][(pc = "call" /\ op = "filter_mapping_file" /\ NoRename) =>
          /\ args' = args
          /\ ret'.status = "ok"
          /\ Len(ret'.result) = Len(Retained)
          /\ \A r \in 1..Len(Retained) :
                 /\ ret'.result[r][1] = Retained[r][1]
                 /\ ret'.result[r][Len(ret'.result[r])] = Retained[r][NCols]]_vars

====
